---- MODULE Spec2Model ----
(***************************************************************************)
(* Model of nbviewer/handlers.py: the route table, the redirect handlers,  *)
(* the cached decorator, the rendering handlers and cache_and_finish.      *)
(*                                                                         *)
(* A request URI is a record [path, q].  path is the URI path split at     *)
(* "/", without the empty string before the leading slash: "/github/acme/" *)
(* is <<"github", "acme", "">>.  q is the query string: -1 when the URI    *)
(* has none, n >= 0 for the query "x" followed by n slashes.  Tornado      *)
(* matches the route table against request.path, while the handlers read   *)
(* request.uri, which carries the query string.                            *)
(***************************************************************************)
EXTENDS Integers, Sequences, FiniteSets, TLC

\* ------------------------------------------------------------------ bounds
MaxTicks == 2       \* clock ticks of half a cache_expiry each
MaxVer == 1         \* changes of the upstream documents
MaxStarts == 3      \* fresh requests of the concurrent clients
RouteStarts == 1    \* fresh requests of the client that walks the route table
PoolStarts == 2     \* fresh requests of the clients that meet in the pool
MaxHops == 4        \* redirects one client follows in a row
PoolSize == 1       \* workers of settings['pool']

\* settings.get('cache_expiry', 60)
cache_expiry == 60

Clients == {"c1", "c2"}

None == [none |-> TRUE]

\* --------------------------------------------------------- character classes
\* segments of the alphabet that match [\w\-]+
WordSegs == {"github", "gist", "url", "urls", "tree", "blob", "faq", "acme",
             "demo", "main", "master", "src", "ab12", "c3", "missing"}
\* segments of the alphabet that match [a-fA-F0-9]+
HexSegs == {"ab12", "c3"}

IsWord(s) == s \in WordSegs
IsHex(s) == s \in HexSegs
NonEmpty(s) == s # ""

\* ---------------------------------------------------------- string helpers
Last(s) == s[Len(s)]
From(s, i) == SubSeq(s, i, Len(s))

\* str.rstrip('/') of a string held as its segments: "src/" is <<"src", "">>
\* and the empty string is <<"">>
RECURSIVE RStrip(_)
RStrip(p) == IF Len(p) > 1 /\ Last(p) = "" THEN RStrip(SubSeq(p, 1, Len(p) - 1)) ELSE p

\* str.rstrip('/') of a whole request URI: the slashes go off the end of the
\* URI text, which is the query string when there is one
RECURSIVE StripPath(_)
StripPath(p) == IF Len(p) > 0 /\ Last(p) = "" THEN StripPath(SubSeq(p, 1, Len(p) - 1)) ELSE p

UriRStrip(u) == IF u.q >= 0 THEN [u EXCEPT !.q = 0] ELSE [u EXCEPT !.path = StripPath(u.path)]

\* request.uri + '/'
UriAddSlash(u) == IF u.q >= 0 THEN [u EXCEPT !.q = u.q + 1] ELSE [u EXCEPT !.path = u.path \o <<"">>]

\* request.uri.endswith('/')
UriEndsWithSlash(u) == IF u.q >= 0 THEN u.q > 0 ELSE Last(u.path) = ""

Plain(p) == [path |-> p, q |-> -1]

\* ------------------------------------------------------------- route table
\* handlers: the first pattern that matches request.path wins; every pattern
\* is anchored at both ends.  The result names the handler class and holds
\* the groups the pattern captures; (.*) captures the rest of the path.
UrlSegs == {"url", "urls"}
RawHosts == {"raw.github.com", "rawgithub.com"}

IsGitHub(p, n) == Len(p) >= n /\ p[1] = "github" /\ IsWord(p[2])

Route(p) ==
    IF p = <<"">> \/ p = <<"index.html">> THEN [h |-> "IndexHandler", args |-> <<>>]
    ELSE IF p = <<"faq">> THEN [h |-> "FAQHandler", args |-> <<>>]
    ELSE IF Len(p) >= 7 /\ p[1] \in UrlSegs /\ p[2] = "github.com" /\ NonEmpty(p[3])
            /\ NonEmpty(p[4]) /\ p[5] \in {"tree", "blob"} /\ NonEmpty(p[6])
        THEN [h |-> "GitHubRedirectHandler", args |-> <<<<p[3]>>, <<p[4]>>, <<p[6]>>, From(p, 7)>>]
    ELSE IF Len(p) >= 5 /\ p[1] \in UrlSegs /\ p[2] \in RawHosts /\ NonEmpty(p[3])
            /\ NonEmpty(p[4])
        THEN [h |-> "RawGitHubURLHandler", args |-> <<<<p[3]>>, <<p[4]>>, From(p, 5)>>]
    ELSE IF Len(p) >= 2 /\ p[1] \in UrlSegs
        THEN [h |-> "URLHandler", args |-> <<IF p[1] = "urls" THEN <<"s">> ELSE <<"">>, From(p, 2)>>]
    ELSE IF IsGitHub(p, 2) /\ Len(p) = 2
        THEN [h |-> "AddSlashHandler", args |-> <<<<p[2]>>>>]
    ELSE IF IsGitHub(p, 3) /\ Len(p) = 3 /\ p[3] = ""
        THEN [h |-> "GitHubUserHandler", args |-> <<<<p[2]>>>>]
    ELSE IF IsGitHub(p, 3) /\ Len(p) = 3 /\ IsWord(p[3])
        THEN [h |-> "AddSlashHandler", args |-> <<<<p[2]>>, <<p[3]>>>>]
    ELSE IF IsGitHub(p, 4) /\ Len(p) = 4 /\ IsWord(p[3]) /\ p[4] = ""
        THEN [h |-> "GitHubRepoHandler", args |-> <<<<p[2]>>, <<p[3]>>>>]
    ELSE IF IsGitHub(p, 7) /\ NonEmpty(p[3]) /\ p[4] = "blob" /\ NonEmpty(p[5]) /\ Last(p) = ""
        THEN [h |-> "RemoveSlashHandler",
              args |-> <<<<p[2]>>, <<p[3]>>, <<p[5]>>, SubSeq(p, 6, Len(p) - 1)>>]
    ELSE IF IsGitHub(p, 6) /\ NonEmpty(p[3]) /\ p[4] = "blob" /\ NonEmpty(p[5])
        THEN [h |-> "GitHubBlobHandler", args |-> <<<<p[2]>>, <<p[3]>>, <<p[5]>>, From(p, 6)>>]
    ELSE IF IsGitHub(p, 5) /\ Len(p) = 5 /\ NonEmpty(p[3]) /\ p[4] = "tree" /\ NonEmpty(p[5])
        THEN [h |-> "AddSlashHandler", args |-> <<<<p[2]>>, <<p[3]>>, <<p[5]>>>>]
    ELSE IF IsGitHub(p, 6) /\ NonEmpty(p[3]) /\ p[4] = "tree" /\ NonEmpty(p[5])
        THEN [h |-> "GitHubTreeHandler", args |-> <<<<p[2]>>, <<p[3]>>, <<p[5]>>, From(p, 6)>>]
    ELSE IF Len(p) = 2 /\ p[1] = "gist" /\ IsHex(p[2])
        THEN [h |-> "GistHandler", args |-> <<<<p[2]>>, <<"">>>>]
    ELSE IF Len(p) >= 3 /\ p[1] = "gist" /\ IsHex(p[2])
        THEN [h |-> "GistHandler", args |-> <<<<p[2]>>, From(p, 3)>>]
    ELSE IF Len(p) = 1 /\ IsHex(p[1])
        THEN [h |-> "GistRedirectHandler", args |-> <<<<p[1]>>, <<"">>>>]
    ELSE IF Len(p) >= 2 /\ IsHex(p[1])
        THEN [h |-> "GistRedirectHandler", args |-> <<<<p[1]>>, From(p, 2)>>]
    ELSE [h |-> "NoRoute", args |-> <<>>]

CachedHandlers == {"URLHandler", "GistHandler", "GitHubUserHandler",
                   "GitHubTreeHandler", "GitHubBlobHandler"}

\* ------------------------------------------------------- upstream providers
\* The content the providers serve: one repository acme/demo with the refs
\* main and master, holding a directory src and five files; two gists; one
\* host.  v is the version of the upstream documents when the call is served.
\* The file latin1.ipynb holds bytes that are no UTF-8 text, the content field
\* of broken.ipynb is no base64 text, and the repository list of the user demo
\* is answered with a body that is no JSON text.
Refs == {<<"main">>, <<"master">>}
Dirs == {<<"">>, <<"src">>}
Files == {<<"a.ipynb">>, <<"notes.txt">>, <<"bad.ipynb">>, <<"latin1.ipynb">>,
          <<"broken.ipynb">>}
GistFiles(id) == IF id = <<"ab12">> THEN {"a.ipynb", "notes.txt"}
                 ELSE IF id = <<"c3">> THEN {"a.ipynb"} ELSE {}

\* the entries of a directory: {name, path, type}
DirFiles(path) ==
    IF path = <<"">>
        THEN {[name |-> "src", path |-> <<"src">>, type |-> "dir"]}
             \cup {[name |-> f[1], path |-> f, type |-> "file"] : f \in Files}
    ELSE {}

Doc(name, v) == [name |-> name, ver |-> v]

\* byte strings that are no UTF-8 text, no base64 text, no JSON text
NotUtf8 == [garbled |-> "utf8"]
NotBase64 == [garbled |-> "base64"]
NotJson == [garbled |-> "json"]

\* utf8(content): the bytes of a text; bytes.decode('utf8'): the text again,
\* UnicodeDecodeError unless CanDecode
utf8(content) == [bytes |-> content]
CanDecode(b) == b # NotUtf8
decode(b) == b.bytes

\* the provider's base64 encoding of file content, and base64.decodestring,
\* which raises unless CanDecodestring
b64encode(b) == [b64 |-> b]
CanDecodestring(e) == e # NotBase64
decodestring(e) == e.b64

\* json.loads(response.body.decode('utf8')) raises unless CanLoad
CanLoad(body) == body # NotJson

\* the bytes of a file
Content(name, v) == IF name = "latin1.ipynb" THEN NotUtf8 ELSE utf8(Doc(name, v))
FetchError(code) == [error |-> TRUE, code |-> code]
Ok(data) == [error |-> FALSE, data |-> data]

\* github_client.get_contents(user, repo, path, ref=ref): a list for a
\* directory, one object for a file
get_contents(user, repo, path, ref, v) ==
    IF user # <<"acme">> \/ repo # <<"demo">> \/ ref \notin Refs THEN FetchError(404)
    ELSE IF path \in Dirs THEN Ok([list |-> TRUE, files |-> DirFiles(path), ver |-> v])
    ELSE IF path \in Files
        THEN Ok([list |-> FALSE, name |-> path[1],
                 content |-> IF path[1] = "broken.ipynb" THEN NotBase64
                             ELSE b64encode(Content(path[1], v))])
    ELSE FetchError(404)

\* github_client.get_gist(gist_id)
get_gist(id, v) ==
    IF GistFiles(id) = {} THEN FetchError(404)
    ELSE Ok([id |-> id, files |-> GistFiles(id), ver |-> v])

\* github_client.get_repos(user)
get_repos(user, v) ==
    IF user = <<"acme">> THEN Ok([repos |-> {"demo"}, ver |-> v])
    ELSE IF user = <<"demo">> THEN Ok(NotJson)
    ELSE FetchError(404)

\* client.fetch(remote_url)
fetch(proto, url, v) ==
    IF Len(url) = 2 /\ url[1] = "example.com" /\ <<url[2]>> \in Files
        THEN Ok(Content(url[2], v))
    ELSE FetchError(404)

\* render_notebook(exporter, nbjson, url=url): NbFormatError unless the
\* document is a notebook
IsNotebook(nbjson) == nbjson.name = "a.ipynb"

\* ---------------------------------------------------------------- content
\* render_template(name, **ns)
render_template(tpl, of, v, entries) ==
    [tpl |-> tpl, of |-> of, ver |-> v, entries |-> entries]

\* ------------------------------------------------------------------ state
VARIABLES
    now,      \* time.time(), in seconds
    ver,      \* version of the upstream documents
    cache,    \* settings['cache']: request URI -> [value, expiry]
    req,      \* per client: the request it has in flight or has finished
    queue,    \* settings['pool']: submitted conversions waiting for a worker
    running,  \* settings['pool']: conversions a worker is executing
    starts,   \* fresh requests the clients may still issue
    uris,     \* request URIs the clients issue
    seen,     \* history: the cache hits, [key, value, expiry, at]
    raced,    \* history: keys two requests were recomputing at once
    failed    \* history: keys whose conversion has failed

vars == <<now, ver, cache, req, queue, running, starts, uris, seen, raced, failed>>

Idle == [pc |-> "idle", uri |-> Plain(<<"">>), hops |-> 0, nbjson |-> None,
         src |-> <<>>, bcontent |-> None, expire |-> 0, status |-> 0, kind |-> "none",
         body |-> None, location |-> None, cause |-> "none",
         looked |-> "no", calls |-> 0, subs |-> 0, writes |-> 0,
         via |-> "none", origin |-> None, prior |-> FALSE, closed |-> FALSE]

\* a request for URI u arrives, the hops-th redirect its client follows.
\* History: via and origin are the handler and the URI of the request whose
\* redirect is followed, prior says that a conversion has failed for u before.
NewRequest(u, hops, old) ==
    [Idle EXCEPT !.pc = "routed", !.uri = u, !.hops = hops,
                 !.via = IF hops = 0 THEN "none" ELSE Route(old.uri.path).h,
                 !.origin = IF hops = 0 THEN None ELSE old.uri,
                 !.prior = u \in failed]

\* RequestHandler.finish with what was written
Finish(r, kind, body) == [r EXCEPT !.pc = "done", !.status = 200, !.kind = kind, !.body = body]

\* RequestHandler.redirect(url): the Location is url joined to request.uri
redirect(r, url) == [r EXCEPT !.pc = "done", !.status = 302, !.kind = "redirect", !.location = url]

\* raise web.HTTPError(status), or an exception no handler catches (500)
Fail(r, status, cause) == [r EXCEPT !.pc = "done", !.status = status, !.kind = "error", !.cause = cause]

\* response.rethrow(): the provider client's error is no web.HTTPError
rethrow(r, response) == Fail(r, 500, "fetch_error")

\* ------------------------------------------------------ plain handlers
IndexHandler_get(r) == Finish(r, "page", utf8(render_template("index.html", <<>>, 0, {})))

FAQHandler_get(r) == Finish(r, "page", utf8(render_template("faq.md", <<>>, 0, {})))

GistRedirectHandler_get(r, gist_id, file) ==
    LET new_url == <<"gist">> \o gist_id
    IN redirect(r, Plain(IF file # <<"">> THEN new_url \o file ELSE new_url))

RawGitHubURLHandler_get(r, user, repo, path) ==
    redirect(r, Plain(<<"github">> \o user \o repo \o <<"blob">> \o path))

GitHubRedirectHandler_get(r, user, repo, ref, path) ==
    redirect(r, Plain(<<"github">> \o user \o repo \o ref \o path))

GitHubRepoHandler_get(r, user, repo) ==
    redirect(r, Plain(<<"github">> \o user \o repo \o <<"tree", "master", "">>))

\* AddSlashHandler that redirects to request.path + '/'
AddSlashHandler_get_path(r) == redirect(r, Plain(r.uri.path \o <<"">>))

AddSlashHandler_get(r) == redirect(r, UriAddSlash(r.uri))

\* RemoveSlashHandler that redirects to request.uri as it is
RemoveSlashHandler_get_same(r) == redirect(r, r.uri)

RemoveSlashHandler_get(r) == redirect(r, UriRStrip(r.uri))

\* --------------------------------------------------------- response caching
\* cache.get(key): the store answers with the value of an entry that has not
\* expired
cache_get(k) ==
    IF k \in DOMAIN cache /\ cache[k].expiry > now THEN cache[k].value ELSE None

\* cache.set(key, value, expire_at): the entry is overwritten wholesale
cache_set(k, value, expire_at) ==
    [x \in DOMAIN cache \cup {k} |->
        IF x = k THEN [value |-> value, expiry |-> expire_at] ELSE cache[x]]

\* cache_and_finish that only answers when the connection has been closed
cache_and_finish_open(r, kind, content) ==
    IF r.closed THEN Finish(r, kind, utf8(content))
    ELSE [r EXCEPT !.pc = "store", !.kind = kind, !.body = utf8(content),
                   !.bcontent = utf8(content), !.expire = now + cache_expiry]

\* BaseHandler.cache_and_finish up to its yield: the content is written to the
\* response and cache.set is issued for the request URI
cache_and_finish(r, kind, content) ==
    [r EXCEPT !.pc = "store", !.kind = kind, !.body = utf8(content),
              !.bcontent = utf8(content), !.expire = now + cache_expiry]

\* finish_notebook that renders the page without submitting the conversion
finish_notebook_nopool(r, nbjson, url) ==
    cache_and_finish([r EXCEPT !.nbjson = nbjson, !.src = url], "notebook",
        render_template("notebook.html", url, nbjson.ver, {}))

\* RenderingHandler.finish_notebook up to its yield: the conversion is
\* submitted to the pool
finish_notebook(r, nbjson, url) ==
    [r EXCEPT !.pc = "queued", !.nbjson = nbjson, !.src = url, !.subs = @ + 1]

\* finish_notebook that renders and caches an error page for NbFormatError
finish_notebook_done_cached(r) ==
    IF ~IsNotebook(r.nbjson)
        THEN cache_and_finish(r, "notebook", render_template("400.html", r.src, r.nbjson.ver, {}))
    ELSE cache_and_finish(r, "notebook",
            render_template("notebook.html", r.src, r.nbjson.ver, {}))

\* RenderingHandler.finish_notebook after the pool has answered
finish_notebook_done(r) ==
    IF ~IsNotebook(r.nbjson) THEN Fail(r, 400, "conversion_error")
    ELSE cache_and_finish(r, "notebook",
            render_template("notebook.html", r.src, r.nbjson.ver, {}))

\* a provider call is issued and the handler is suspended on it
Call(r) == [r EXCEPT !.pc = "fetch", !.calls = @ + 1]

\* --------------------------------------------------------- cached handlers
\* each get in two parts: up to the provider call, and after its response
URLHandler_get(r, secure, url) == Call(r)

URLHandler_resume(r, secure, url, response) ==
    IF response.error THEN rethrow(r, response)
    ELSE IF ~CanDecode(response.data) THEN Fail(r, 500, "decode_error")
    ELSE finish_notebook(r, decode(response.data), <<IF secure = <<"s">> THEN "https" ELSE "http">> \o url)

GistHandler_get(r, gist_id, filename) == Call(r)

\* GistHandler.get that keeps the requested name when the gist has one file
GistHandler_resume_noauto(r, gist_id, name, response) ==
    IF response.error THEN rethrow(r, response)
    ELSE IF ~CanLoad(response.data) THEN Fail(r, 500, "decode_error")
    ELSE LET data == response.data
             files == data.files
             filename == name
         IN IF filename # <<"">>
                THEN IF Len(filename) = 1 /\ filename[1] \in files
                        THEN finish_notebook(r, Doc(filename[1], data.ver),
                                <<"raw">> \o data.id \o filename)
                     ELSE Fail(r, 500, "key_error")
            ELSE cache_and_finish(r, "listing",
                    render_template("gistlist.html", data.id, data.ver,
                        {[path |-> f, url |-> data.id \o <<f>>] : f \in files}))

GistHandler_resume(r, gist_id, name, response) ==
    IF response.error THEN rethrow(r, response)
    ELSE IF ~CanLoad(response.data) THEN Fail(r, 500, "decode_error")
    ELSE LET data == response.data
             files == data.files
             filename == IF Cardinality(files) = 1
                            THEN <<CHOOSE f \in files : TRUE>> ELSE name
         IN IF filename # <<"">>
                THEN IF Len(filename) = 1 /\ filename[1] \in files
                        THEN finish_notebook(r, Doc(filename[1], data.ver),
                                <<"raw">> \o data.id \o filename)
                     ELSE Fail(r, 500, "key_error")
            ELSE IF filename # <<"">>
                THEN Fail(r, 404, "not_found")
            ELSE cache_and_finish(r, "listing",
                    render_template("gistlist.html", data.id, data.ver,
                        {[path |-> f, url |-> data.id \o <<f>>] : f \in files}))

GitHubUserHandler_get(r, user) == Call(r)

GitHubUserHandler_resume(r, user, response) ==
    IF response.error THEN rethrow(r, response)
    ELSE IF ~CanLoad(response.data) THEN Fail(r, 500, "decode_error")
    ELSE cache_and_finish(r, "listing",
            render_template("userview.html", user, response.data.ver,
                {[url |-> n, name |-> n] : n \in response.data.repos}))

\* path_list of the tree view: the repository, then one entry per segment
RECURSIVE path_list(_, _)
path_list(base_url, names) ==
    IF names = <<>> THEN <<>>
    ELSE <<[url |-> base_url \o <<names[1]>>, name |-> names[1]]>>
         \o path_list(base_url \o <<names[1]>>, Tail(names))

GitHubTreeHandler_get(r, user, repo, ref, path) ==
    IF ~UriEndsWithSlash(r.uri) THEN redirect(r, UriAddSlash(r.uri))
    ELSE Call(r)

GitHubTreeHandler_resume(r, user, repo, ref, rawpath, response) ==
    LET path == RStrip(rawpath)
        base_url == <<"github">> \o user \o repo \o <<"tree">> \o ref
    IN IF response.error THEN rethrow(r, response)
       ELSE IF ~CanLoad(response.data) THEN Fail(r, 500, "decode_error")
       ELSE IF ~response.data.list
           THEN redirect(r, Plain(<<"github">> \o user \o repo \o <<"blob">> \o ref \o path))
       ELSE cache_and_finish(r, "listing",
               render_template("treelist.html",
                   <<[url |-> base_url, name |-> repo[1]]>>
                       \o (IF path # <<"">> THEN path_list(base_url, path) ELSE <<>>),
                   response.data.ver,
                   {[name |-> f.name,
                     url |-> <<"github">> \o user \o repo
                             \o <<IF f.type = "dir" THEN "tree" ELSE "blob">> \o ref \o f.path,
                     class |-> IF f.type = "dir" THEN "icon-folder-open" ELSE "icon-file"]
                       : f \in response.data.files}))

\* str.endswith('.ipynb') over the file names of the provider
EndsWithIpynb(name) == name \in {"a.ipynb", "bad.ipynb", "latin1.ipynb", "broken.ipynb"}

GitHubBlobHandler_get(r, user, repo, ref, path) == Call(r)

\* GitHubBlobHandler.get that redirects a directory to the tree of master
GitHubBlobHandler_resume_master(r, user, repo, ref, path, response) ==
    IF response.error THEN rethrow(r, response)
    ELSE IF ~CanLoad(response.data) THEN Fail(r, 500, "decode_error")
    ELSE IF response.data.list
        THEN redirect(r, Plain(<<"github">> \o user \o repo \o <<"tree", "master">> \o path \o <<"">>))
    ELSE IF ~CanDecodestring(response.data.content) THEN Fail(r, 400, "decode_error")
    ELSE LET filedata == decodestring(response.data.content)
         IN IF EndsWithIpynb(response.data.name)
                THEN IF ~CanDecode(filedata) THEN Fail(r, 400, "decode_error")
                     ELSE finish_notebook(r, decode(filedata),
                            <<"https", "raw.github.com">> \o user \o repo \o ref \o path)
            ELSE Finish(r, "text", filedata)

GitHubBlobHandler_resume(r, user, repo, ref, path, response) ==
    IF response.error THEN rethrow(r, response)
    ELSE IF ~CanLoad(response.data) THEN Fail(r, 500, "decode_error")
    ELSE IF response.data.list
        THEN redirect(r, Plain(<<"github">> \o user \o repo \o <<"tree">> \o ref \o path \o <<"">>))
    ELSE IF ~CanDecodestring(response.data.content) THEN Fail(r, 400, "decode_error")
    ELSE LET filedata == decodestring(response.data.content)
         IN IF EndsWithIpynb(response.data.name)
                THEN IF ~CanDecode(filedata) THEN Fail(r, 400, "decode_error")
                     ELSE finish_notebook(r, decode(filedata),
                            <<"https", "raw.github.com">> \o user \o repo \o ref \o path)
            ELSE Finish(r, "text", filedata)

\* ----------------------------------------------------------------- dispatch
\* the handler of a request, up to its first suspension.  A get wrapped by
\* cached first issues cache.get(request.uri) and is suspended on it.
cached(r) == [r EXCEPT !.pc = "lookup"]

Dispatch(r) ==
    LET t == Route(r.uri.path)
        a == t.args
    IN IF t.h \in CachedHandlers THEN cached(r)
       ELSE IF t.h = "IndexHandler" THEN IndexHandler_get(r)
       ELSE IF t.h = "FAQHandler" THEN FAQHandler_get(r)
       ELSE IF t.h = "GitHubRedirectHandler"
           THEN GitHubRedirectHandler_get(r, a[1], a[2], a[3], a[4])
       ELSE IF t.h = "RawGitHubURLHandler" THEN RawGitHubURLHandler_get(r, a[1], a[2], a[3])
       ELSE IF t.h = "GitHubRepoHandler" THEN GitHubRepoHandler_get(r, a[1], a[2])
       ELSE IF t.h = "GistRedirectHandler" THEN GistRedirectHandler_get(r, a[1], a[2])
       ELSE IF t.h = "AddSlashHandler" THEN AddSlashHandler_get(r)
       ELSE IF t.h = "RemoveSlashHandler" THEN RemoveSlashHandler_get(r)
       ELSE Fail(r, 404, "no_route")

\* the wrapped get of a cached handler, up to its provider call
Method(r) ==
    LET t == Route(r.uri.path)
        a == t.args
    IN IF t.h = "URLHandler" THEN URLHandler_get(r, a[1], a[2])
       ELSE IF t.h = "GistHandler" THEN GistHandler_get(r, a[1], a[2])
       ELSE IF t.h = "GitHubUserHandler" THEN GitHubUserHandler_get(r, a[1])
       ELSE IF t.h = "GitHubTreeHandler" THEN GitHubTreeHandler_get(r, a[1], a[2], a[3], a[4])
       ELSE GitHubBlobHandler_get(r, a[1], a[2], a[3], a[4])

\* cached_method that calls the wrapped get whatever cache.get answers
cached_method_nohit(r, cached_response) == Method([r EXCEPT !.looked = "miss"])

\* cached_method after cache.get has answered
cached_method(r, cached_response) ==
    IF cached_response # None
        THEN Finish([r EXCEPT !.looked = "hit"], "hit", cached_response)
    ELSE Method([r EXCEPT !.looked = "miss"])

\* the provider's answer to the call a suspended handler has issued
Response(r, v) ==
    LET t == Route(r.uri.path)
        a == t.args
    IN IF t.h = "URLHandler" THEN fetch(a[1], a[2], v)
       ELSE IF t.h = "GistHandler" THEN get_gist(a[1], v)
       ELSE IF t.h = "GitHubUserHandler" THEN get_repos(a[1], v)
       ELSE IF t.h = "GitHubTreeHandler" THEN get_contents(a[1], a[2], RStrip(a[4]), a[3], v)
       ELSE get_contents(a[1], a[2], a[4], a[3], v)

\* the wrapped get of a cached handler, from the provider's response on
Resume(r, response) ==
    LET t == Route(r.uri.path)
        a == t.args
    IN IF t.h = "URLHandler" THEN URLHandler_resume(r, a[1], a[2], response)
       ELSE IF t.h = "GistHandler" THEN GistHandler_resume(r, a[1], a[2], response)
       ELSE IF t.h = "GitHubUserHandler" THEN GitHubUserHandler_resume(r, a[1], response)
       ELSE IF t.h = "GitHubTreeHandler"
           THEN GitHubTreeHandler_resume(r, a[1], a[2], a[3], a[4], response)
       ELSE GitHubBlobHandler_resume(r, a[1], a[2], a[3], a[4], response)

\* ---------------------------------------------------------------- actions
InFlight == {"fetch", "queued", "running"}

\* keys that two requests which missed the cache are recomputing at once
Racing(rq) ==
    {rq[c].uri : c \in {x \in DOMAIN rq :
        /\ rq[x].pc \in InFlight
        /\ \E y \in DOMAIN rq \ {x} : rq[y].pc \in InFlight /\ rq[y].uri = rq[x].uri}}

\* a client sends a fresh request; the handler runs to its first suspension
Request(c, u) ==
    /\ req[c].pc \in {"idle", "done"}
    /\ starts > 0
    /\ starts' = starts - 1
    /\ req' = [req EXCEPT ![c] = Dispatch(NewRequest(u, 0, req[c]))]
    /\ UNCHANGED <<now, ver, cache, queue, running, uris, seen, raced, failed>>

\* a client follows the redirect it was answered with
Follow(c) ==
    /\ req[c].pc = "done"
    /\ req[c].kind = "redirect"
    /\ req[c].hops < MaxHops
    /\ req' = [req EXCEPT ![c] = Dispatch(NewRequest(req[c].location, req[c].hops + 1, req[c]))]
    /\ UNCHANGED <<now, ver, cache, queue, running, starts, uris, seen, raced, failed>>

\* cached_method that renews the expiry of the entry it serves
LookupTouch(c) ==
    /\ req[c].pc = "lookup"
    /\ LET k == req[c].uri
           cached_response == cache_get(k)
       IN /\ req' = [req EXCEPT ![c] = cached_method(req[c], cached_response)]
          /\ seen' = IF cached_response # None
                        THEN seen \cup {[key |-> k, value |-> cached_response,
                                         expiry |-> cache[k].expiry, at |-> now]}
                     ELSE seen
          /\ cache' = IF cached_response # None
                         THEN cache_set(k, cached_response, now + cache_expiry)
                      ELSE cache
    /\ raced' = raced \cup Racing(req')
    /\ UNCHANGED <<now, ver, queue, running, starts, uris, failed>>

\* a request loop that runs a conversion itself: cached_method goes on only
\* when no conversion is queued or running
LookupAfterPool(c) ==
    /\ req[c].pc = "lookup"
    /\ queue = <<>>
    /\ running = {}
    /\ LET k == req[c].uri
           cached_response == cache_get(k)
       IN /\ req' = [req EXCEPT ![c] = cached_method(req[c], cached_response)]
          /\ seen' = IF cached_response # None
                        THEN seen \cup {[key |-> k, value |-> cached_response,
                                         expiry |-> cache[k].expiry, at |-> now]}
                     ELSE seen
    /\ raced' = raced \cup Racing(req')
    /\ UNCHANGED <<now, ver, cache, queue, running, starts, uris, failed>>

\* cache.get answers and cached_method goes on: a hit is written out, a miss
\* calls the wrapped get, which runs to its provider call
Lookup(c) ==
    /\ req[c].pc = "lookup"
    /\ LET k == req[c].uri
           cached_response == cache_get(k)
       IN /\ req' = [req EXCEPT ![c] = cached_method(req[c], cached_response)]
          /\ seen' = IF cached_response # None
                        THEN seen \cup {[key |-> k, value |-> cached_response,
                                         expiry |-> cache[k].expiry, at |-> now]}
                     ELSE seen
    /\ raced' = raced \cup Racing(req')
    /\ UNCHANGED <<now, ver, cache, queue, running, starts, uris, failed>>

\* a submission that is dropped when every worker of the pool is busy
FetchDoneDropWhenBusy(c) ==
    /\ req[c].pc = "fetch"
    /\ req' = [req EXCEPT ![c] = Resume(req[c], Response(req[c], ver))]
    /\ queue' = IF req'[c].pc = "queued" /\ Cardinality(running) < PoolSize
                    THEN Append(queue, c) ELSE queue
    /\ raced' = raced \cup Racing(req')
    /\ UNCHANGED <<now, ver, cache, running, starts, uris, seen, failed>>

\* the provider answers and the handler goes on to its next suspension
FetchDone(c) ==
    /\ req[c].pc = "fetch"
    /\ req' = [req EXCEPT ![c] = Resume(req[c], Response(req[c], ver))]
    /\ queue' = IF req'[c].pc = "queued" THEN Append(queue, c) ELSE queue
    /\ raced' = raced \cup Racing(req')
    /\ UNCHANGED <<now, ver, cache, running, starts, uris, seen, failed>>

\* a free worker of the pool takes the oldest submitted conversion
PoolStart ==
    /\ queue # <<>>
    /\ Cardinality(running) < PoolSize
    /\ running' = running \cup {Head(queue)}
    /\ queue' = Tail(queue)
    /\ req' = [req EXCEPT ![Head(queue)].pc = "running"]
    /\ UNCHANGED <<now, ver, cache, starts, uris, seen, raced, failed>>

\* a worker returns and finish_notebook goes on
RenderDone(c) ==
    /\ c \in running
    /\ running' = running \ {c}
    /\ req' = [req EXCEPT ![c] = finish_notebook_done(req[c])]
    /\ failed' = IF IsNotebook(req[c].nbjson) THEN failed ELSE failed \cup {req[c].uri}
    /\ UNCHANGED <<now, ver, cache, queue, starts, uris, seen, raced>>

\* cache_and_finish that leaves an entry that is already there
CacheSetIfAbsent(c) ==
    /\ req[c].pc = "store"
    /\ cache' = IF cache_get(req[c].uri) # None THEN cache
                ELSE cache_set(req[c].uri, req[c].bcontent, req[c].expire)
    /\ req' = [req EXCEPT ![c].pc = "done", ![c].status = 200, ![c].writes = @ + 1]
    /\ UNCHANGED <<now, ver, queue, running, starts, uris, seen, raced, failed>>

\* cache.set is carried out and the request finishes
CacheSet(c) ==
    /\ req[c].pc = "store"
    /\ cache' = cache_set(req[c].uri, req[c].bcontent, req[c].expire)
    /\ req' = [req EXCEPT ![c].pc = "done", ![c].status = 200, ![c].writes = @ + 1]
    /\ UNCHANGED <<now, ver, queue, running, starts, uris, seen, raced, failed>>

\* the client closes the connection of a request that has missed the cache
\* and is not answered yet: no handler defines on_connection_close, so the
\* coroutine of the request is left as it is.  closed is read by no handler.
Close(c) ==
    /\ req[c].pc \in {"fetch", "queued", "running", "store"}
    /\ ~req[c].closed
    /\ req' = [req EXCEPT ![c].closed = TRUE]
    /\ UNCHANGED <<now, ver, cache, queue, running, starts, uris, seen, raced, failed>>

\* time passes; the store drops the entries whose expiry has come
Tick ==
    /\ now < MaxTicks * (cache_expiry \div 2)
    /\ now' = now + cache_expiry \div 2
    /\ cache' = [k \in {x \in DOMAIN cache : cache[x].expiry > now'} |-> cache[k]]
    /\ UNCHANGED <<ver, req, queue, running, starts, uris, seen, raced, failed>>

\* the upstream documents change
UpstreamChange ==
    /\ ver < MaxVer
    /\ ver' = ver + 1
    /\ UNCHANGED <<now, cache, req, queue, running, starts, uris, seen, raced, failed>>

\* ------------------------------------------------------------ request URIs
GitHub(rest) == Plain(<<"github", "acme", "demo">> \o rest)

\* the requests the two concurrent clients send: a notebook, a document that
\* is no notebook, and a text file behind a trailing slash
CacheURIs ==
    { GitHub(<<"blob", "main", "a.ipynb">>),
      GitHub(<<"blob", "main", "bad.ipynb">>),
      GitHub(<<"blob", "main", "notes.txt", "">>) }

\* the requests that meet in the pool: a notebook, a document that is no
\* notebook, a text file behind a trailing slash and a listing
PoolURIs ==
    { GitHub(<<"blob", "main", "a.ipynb">>),
      GitHub(<<"blob", "main", "bad.ipynb">>),
      GitHub(<<"blob", "main", "notes.txt", "">>),
      Plain(<<"gist", "ab12">>) }

\* the requests of one client that comes back: one per cached handler
SeqURIs ==
    { Plain(<<"url", "example.com", "a.ipynb">>),
      Plain(<<"gist", "ab12">>),
      Plain(<<"gist", "c3">>),
      Plain(<<"github", "acme", "">>),
      GitHub(<<"tree", "main", "src">>),
      GitHub(<<"blob", "main", "a.ipynb">>),
      GitHub(<<"blob", "main", "notes.txt">>) }

\* the requests of the client that walks the route table
RouteURIs ==
    { Plain(<<"">>), Plain(<<"faq">>), Plain(<<"acme">>),
      Plain(<<"github", "acme">>), Plain(<<"github", "acme", "">>),
      [path |-> <<"github", "acme">>, q |-> 0],
      GitHub(<<>>), GitHub(<<"">>),
      GitHub(<<"tree", "main">>), GitHub(<<"tree", "main", "">>),
      GitHub(<<"tree", "main", "src">>), GitHub(<<"tree", "main", "src", "">>),
      [path |-> <<"github", "acme", "demo", "tree", "main", "src", "">>, q |-> 0],
      GitHub(<<"tree", "main", "a.ipynb">>), GitHub(<<"tree", "main", "a.ipynb", "">>),
      GitHub(<<"tree", "main", "missing", "">>),
      GitHub(<<"blob", "main", "src", "">>), GitHub(<<"blob", "main", "src">>),
      GitHub(<<"blob", "main", "a.ipynb">>), GitHub(<<"blob", "main", "a.ipynb", "">>),
      GitHub(<<"blob", "main", "notes.txt">>), GitHub(<<"blob", "main", "bad.ipynb">>),
      GitHub(<<"blob", "main", "">>),
      Plain(<<"gist", "ab12">>), Plain(<<"gist", "ab12", "a.ipynb">>),
      Plain(<<"gist", "ab12", "missing">>),
      Plain(<<"gist", "c3">>), Plain(<<"gist", "c3", "missing">>),
      Plain(<<"ab12">>), Plain(<<"ab12", "a.ipynb">>),
      Plain(<<"url", "example.com", "a.ipynb">>),
      Plain(<<"urls", "example.com", "bad.ipynb">>),
      Plain(<<"url", "example.com", "missing">>),
      Plain(<<"url", "example.com", "latin1.ipynb">>),
      GitHub(<<"blob", "main", "latin1.ipynb">>),
      GitHub(<<"blob", "main", "broken.ipynb">>),
      Plain(<<"github", "demo", "">>),
      Plain(<<"urls", "github.com", "acme", "demo", "blob", "main", "a.ipynb">>),
      Plain(<<"url", "github.com", "acme", "demo", "tree", "main", "src">>),
      Plain(<<"urls", "raw.github.com", "acme", "demo", "main", "a.ipynb">>),
      Plain(<<"url", "raw.github.com", "acme", "demo", "main", "src", "">>) }

\* the server at time t, with the upstream documents at version v, an empty
\* cache and an idle pool
StartAt(clients, n, us, t, v) ==
    /\ now = t
    /\ ver = v
    /\ cache = <<>>
    /\ req = [c \in clients |-> Idle]
    /\ queue = <<>>
    /\ running = {}
    /\ starts = n
    /\ uris = us
    /\ seen = {}
    /\ raced = {}
    /\ failed = {}

\* the server when it is started
Start(clients, n, us) == StartAt(clients, n, us, 0, 0)

\* two clients whose requests interleave
Init == Start(Clients, MaxStarts, CacheURIs)

\* two clients whose requests meet in the pool of a server that has been idle
\* until one clock tick and one upstream change are left
InitPool ==
    StartAt(Clients, PoolStarts, PoolURIs, (MaxTicks - 1) * (cache_expiry \div 2), MaxVer - 1)

\* one client that sends one request after the other to the cached handlers
InitSeq == Start({"c1"}, MaxStarts, SeqURIs)

\* one client that sends every kind of request and follows the redirects
InitRoute == Start({"c1"}, RouteStarts, RouteURIs)

Next ==
    \/ \E c \in DOMAIN req : \E u \in uris : Request(c, u)
    \/ \E c \in DOMAIN req : Follow(c)
    \/ \E c \in DOMAIN req : Lookup(c)
    \/ \E c \in DOMAIN req : FetchDone(c)
    \/ PoolStart
    \/ \E c \in DOMAIN req : RenderDone(c)
    \/ \E c \in DOMAIN req : CacheSet(c)
    \/ Tick
    \/ UpstreamChange

Spec == Init /\ [][Next]_vars

SpecSeq == InitSeq /\ [][Next]_vars

SpecRoute == InitRoute /\ [][Next]_vars

\* the request loop resumes the handler of a request at its suspension point:
\* cache.get, the provider call or cache.set has answered
Handle(c) == Lookup(c) \/ FetchDone(c) \/ CacheSet(c)

\* the steps of the server, and the clients that close their connections
NextClose ==
    \/ Next
    \/ \E c \in DOMAIN req : Close(c)

\* the two clients, with a pool whose free workers take the submitted
\* conversions and whose running conversions return
SpecPool ==
    /\ InitPool
    /\ [][NextClose]_vars
    /\ WF_vars(PoolStart)
    /\ \A c \in Clients : WF_vars(RenderDone(c))

\* the two clients, with a request loop that runs every handler that is
\* ready, whatever the pool does
SpecLoop ==
    /\ InitPool
    /\ [][NextClose]_vars
    /\ \A c \in Clients : WF_vars(Handle(c))

\* the two clients, with the request loop and the pool both running
SpecRun ==
    /\ InitPool
    /\ [][NextClose]_vars
    /\ WF_vars(PoolStart)
    /\ \A c \in Clients : WF_vars(Handle(c) \/ RenderDone(c))

\* ================================================================== claims
Done(c) == req[c].pc = "done"
Handler(c) == Route(req[c].uri.path).h
Args(c) == Route(req[c].uri.path).args

\* C1: when the lookup of a request finds an unexpired entry for its URI, the
\* response is exactly the stored bytes, with no provider call and no pool
\* submission; when it finds none (never written, or dropped at its expiry)
\* the request is handled as a miss: the wrapped get runs.
C1_HitServesStoredBytes ==
    [][\A c \in DOMAIN req :
        (req[c].pc = "lookup" /\ req'[c].pc # "lookup") =>
            LET k == req[c].uri
            IN IF k \in DOMAIN cache /\ cache[k].expiry > now
                   THEN /\ req'[c].pc = "done"
                        /\ req'[c].status = 200
                        /\ req'[c].body = cache[k].value
                        /\ req'[c].calls = 0
                        /\ req'[c].subs = 0
               ELSE /\ req'[c].looked = "miss"
                    /\ \/ req'[c].pc = "fetch" /\ req'[c].calls = 1
                       \/ req'[c].kind = "redirect"]_vars

\* a request that fetches again for a key that an earlier request was served
\* from the cache, after that entry's expiry
C1_Witness ==
    \E c \in DOMAIN req : \E o \in seen :
        /\ o.key = req[c].uri
        /\ o.at < o.expiry
        /\ o.expiry <= now
        /\ req[c].looked = "miss"
        /\ req[c].pc = "fetch"

\* C2 (as claimed): every request that missed the cache and ended with a
\* successful content response has written the bytes it returned under its URI.
ContentKinds == {"notebook", "listing", "text"}

C2_MissPopulatesCache ==
    \A c \in DOMAIN req :
        (Done(c) /\ req[c].looked = "miss" /\ req[c].status = 200
            /\ req[c].kind \in ContentKinds)
        => (req[c].writes = 1 /\ req[c].bcontent = req[c].body)

\* C3: a request whose document fails conversion ends with status 400 and
\* writes nothing, its key is not in the cache, and a later request for the
\* same key misses the cache.
ConversionFailed(c) ==
    /\ req[c].pc \in {"store", "done"}
    /\ req[c].subs = 1
    /\ ~IsNotebook(req[c].nbjson)

C3_ConversionErrorNotCached ==
    \A c \in DOMAIN req :
        /\ ConversionFailed(c) =>
              /\ Done(c)
              /\ req[c].status = 400
              /\ req[c].writes = 0
              /\ req[c].uri \notin DOMAIN cache
        /\ (req[c].prior /\ req[c].pc \notin {"routed", "lookup"}) =>
              req[c].looked = "miss"

\* a request that renders again for a key whose conversion has failed before
C3_Witness ==
    \E c \in DOMAIN req :
        /\ req[c].prior
        /\ req[c].looked = "miss"
        /\ req[c].calls = 1
        /\ req[c].subs = 1
        /\ Done(c)
        /\ req[c].status = 400

\* C4 (as claimed): once a request has been served bytes b from the cache for
\* key k, the value stored under k is b until that entry's expiry.
C4_StableWithinTTL ==
    \A o \in seen :
        (now < o.expiry /\ o.key \in DOMAIN cache) => cache[o.key].value = o.value

\* C5: the write of a request that missed is carried out whatever the cache
\* holds for the key by then: the entry becomes the bytes and the expiry of the
\* request that writes last.  (That two requests recompute one key at once
\* and both write it is the witness.)
C5_RacingWritesOverwrite ==
    [][\A c \in DOMAIN req :
        (req[c].pc = "store" /\ req'[c].pc = "done") =>
            /\ req[c].uri \in DOMAIN cache'
            /\ cache'[req[c].uri] = [value |-> req[c].bcontent, expiry |-> req[c].expire]
            /\ req'[c].writes = 1]_vars

\* two requests for one key were in flight at once, both have written it, and
\* they wrote different bytes
C5_Witness ==
    \E c \in DOMAIN req : \E d \in DOMAIN req \ {c} :
        /\ req[c].uri = req[d].uri
        /\ req[c].uri \in raced
        /\ Done(c) /\ Done(d)
        /\ req[c].looked = "miss" /\ req[d].looked = "miss"
        /\ req[c].writes = 1 /\ req[d].writes = 1
        /\ req[c].bcontent # req[d].bcontent
        /\ req[c].uri \in DOMAIN cache
        /\ cache[req[c].uri].value = req[d].bcontent

\* C6 (as claimed): no chain of redirects is longer than two: the request a
\* client sends after it has followed two redirects in a row is not answered
\* with a redirect again.
C6_RedirectsConverge ==
    \A c \in DOMAIN req :
        (Done(c) /\ req[c].hops >= 2) => req[c].kind # "redirect"

\* the path matches a collection route and has no trailing slash
CollectionNoSlash(u) ==
    \/ Route(u.path).h = "AddSlashHandler"
    \/ Route(u.path).h = "GitHubTreeHandler" /\ Last(u.path) # ""

\* the request follows the redirect of a request for a collection route
\* without trailing slash
AfterAddedSlash(c) ==
    /\ req[c].hops > 0
    /\ CollectionNoSlash(req[c].origin)
    /\ req[c].uri = UriAddSlash(req[c].origin)

\* the provider reports one file at the path of a tree-form request
TreeOfFile(c) ==
    /\ Handler(c) = "GitHubTreeHandler"
    /\ req[c].calls = 1
    /\ ~Response(req[c], ver).error
    /\ ~Response(req[c], ver).data.list

Listed(c) == ~Response(req[c], ver).error /\ Response(req[c], ver).data.list

\* C8: a blob-form request the provider answers with a list is redirected to
\* the tree form of the same user, repo, ref and path; a tree-form request the
\* provider answers with one object is redirected to the blob form of the
\* same user, repo, ref and path; neither renders nor caches.
C8_TreeBlobCrossRedirect ==
    \A c \in DOMAIN req :
        (Done(c) /\ req[c].calls = 1 /\ ~Response(req[c], ver).error) =>
            /\ (Handler(c) = "GitHubBlobHandler" /\ Listed(c)) =>
                  /\ req[c].kind = "redirect"
                  /\ Route(req[c].location.path).h = "GitHubTreeHandler"
                  /\ SubSeq(Route(req[c].location.path).args, 1, 3) = SubSeq(Args(c), 1, 3)
                  /\ RStrip(Route(req[c].location.path).args[4]) = Args(c)[4]
                  /\ req[c].subs = 0
                  /\ req[c].writes = 0
            /\ (Handler(c) = "GitHubTreeHandler" /\ ~Listed(c)) =>
                  /\ req[c].kind = "redirect"
                  /\ Route(req[c].location.path).h = "GitHubBlobHandler"
                  /\ SubSeq(Route(req[c].location.path).args, 1, 3) = SubSeq(Args(c), 1, 3)
                  /\ Route(req[c].location.path).args[4] = RStrip(Args(c)[4])
                  /\ req[c].subs = 0
                  /\ req[c].writes = 0

\* both directions have happened: a blob-form request for a directory ...
C8_Witness ==
    \E c \in DOMAIN req :
        /\ Done(c)
        /\ req[c].calls = 1
        /\ Handler(c) = "GitHubBlobHandler"
        /\ Listed(c)
        /\ req[c].location = GitHub(<<"tree", "main", "src", "">>)

\* ... and a tree-form request for a file
C8_WitnessTree ==
    \E c \in DOMAIN req :
        /\ Done(c)
        /\ TreeOfFile(c)
        /\ req[c].location = GitHub(<<"blob", "main", "a.ipynb">>)

BlobSrcSlash == GitHub(<<"blob", "main", "src", "">>)
BlobSrc == GitHub(<<"blob", "main", "src">>)
TreeSrcSlash == GitHub(<<"tree", "main", "src", "">>)

\* C9 (as claimed): /github/acme/demo/blob/main/src/, a directory, is answered
\* with a redirect to /github/acme/demo/tree/main/src/.
C9_BlobSlashToTree ==
    \A c \in DOMAIN req :
        (Done(c) /\ req[c].uri = BlobSrcSlash) =>
            (req[c].kind = "redirect" /\ req[c].location = TreeSrcSlash)

\* C9 (amended): the request is answered with a redirect to the URI without
\* its trailing slash, /github/acme/demo/blob/main/src, and the request for
\* that URI is answered with the redirect to /github/acme/demo/tree/main/src/.
C9_BlobSlashToTreeInTwoHops ==
    \A c \in DOMAIN req :
        /\ (Done(c) /\ req[c].uri = BlobSrcSlash) =>
              (req[c].kind = "redirect" /\ req[c].location = BlobSrc)
        /\ (Done(c) /\ req[c].uri = BlobSrc) =>
              (req[c].kind = "redirect" /\ req[c].location = TreeSrcSlash)

\* the second hop: the redirect of the blob handler, reached from the
\* redirect of the RemoveSlashHandler
C9_Witness ==
    \E c \in DOMAIN req :
        /\ Done(c)
        /\ req[c].uri = BlobSrc
        /\ req[c].origin = BlobSrcSlash
        /\ req[c].via = "RemoveSlashHandler"
        /\ req[c].location = TreeSrcSlash

\* C10 (as claimed): a gist request that names a file the gist does not hold
\* ends with status 404, whatever the number of files of the gist.
C10_MissingGistFileIs404 ==
    \A c \in DOMAIN req :
        (/\ Done(c)
         /\ Handler(c) = "GistHandler"
         /\ req[c].calls = 1
         /\ ~Response(req[c], ver).error
         /\ Args(c)[2] # <<"">>
         /\ ~(Len(Args(c)[2]) = 1 /\ Args(c)[2][1] \in GistFiles(Args(c)[1])))
        => req[c].status = 404

\* C11: a gist request that names no file and whose gist is served: when the
\* gist holds exactly one file, that file is submitted for conversion and,
\* converted, is the notebook page of the response; when it holds N > 1 files
\* the response is a listing with exactly N entries, one per file, with
\* pairwise distinct paths, and no conversion is submitted.
GistNoName(c) ==
    /\ Handler(c) = "GistHandler"
    /\ Args(c)[2] = <<"">>
    /\ req[c].calls = 1
    /\ req[c].pc # "fetch"
    /\ ~Response(req[c], ver).error

C11_GistListingOrOnlyFile ==
    \A c \in DOMAIN req :
        GistNoName(c) =>
            LET files == GistFiles(Args(c)[1])
            IN IF Cardinality(files) = 1
                   THEN /\ req[c].subs = 1
                        /\ req[c].nbjson.name \in files
                        /\ (req[c].pc \in {"store", "done"} /\ IsNotebook(req[c].nbjson)) =>
                              /\ req[c].kind = "notebook"
                              /\ req[c].body.bytes.tpl = "notebook.html"
               ELSE /\ req[c].pc \in {"store", "done"}
                    /\ req[c].kind = "listing"
                    /\ req[c].subs = 0
                    /\ LET entries == req[c].body.bytes.entries
                       IN /\ Cardinality(entries) = Cardinality(files)
                          /\ {e.path : e \in entries} = files
                          /\ \A e, f \in entries : e.path = f.path => e = f

\* the listing of a gist of two files has been answered
C11_Witness ==
    \E c \in DOMAIN req :
        /\ GistNoName(c)
        /\ Done(c)
        /\ Cardinality(GistFiles(Args(c)[1])) = 2
        /\ req[c].kind = "listing"
        /\ Cardinality(req[c].body.bytes.entries) = 2

\* the only file of a gist has been rendered for a request that names none
C11_WitnessOnlyFile ==
    \E c \in DOMAIN req :
        /\ GistNoName(c)
        /\ Done(c)
        /\ Cardinality(GistFiles(Args(c)[1])) = 1
        /\ req[c].kind = "notebook"

\* C12 (as claimed): a request whose provider call is answered with an error
\* status ends with that status and an error page, never with 500.
FetchFailed(c) ==
    /\ Done(c)
    /\ req[c].looked = "miss"
    /\ req[c].calls = 1
    /\ Response(req[c], ver).error

C12_UpstreamStatusSurfaces ==
    \A c \in DOMAIN req :
        FetchFailed(c) =>
            /\ req[c].kind = "error"
            /\ req[c].status = Response(req[c], ver).code
            /\ req[c].status # 500

\* C13 (as claimed): every request that ends because provider content could
\* not be decoded (base64, UTF-8, JSON) or because the conversion failed ends
\* with status 400.
C13_DecodeFailureIs400 ==
    \A c \in DOMAIN req :
        (Done(c) /\ req[c].cause \in {"decode_error", "conversion_error"})
        => req[c].status = 400

\* as far as the code goes: the content of a blob that cannot be decoded
\* (handlers.py 305-316) and a failed conversion (133-139) end with 400
C13_BlobDecodeFailureIs400 ==
    \A c \in DOMAIN req :
        (/\ Done(c)
         /\ req[c].cause \in {"decode_error", "conversion_error"}
         /\ ~(Handler(c) = "URLHandler" /\ req[c].subs = 0)
         /\ ~(Handler(c) = "GitHubUserHandler"))
        => req[c].status = 400

\* C14 (as claimed): a legacy request for a github.com tree or blob address is
\* redirected to a URI that the route table dispatches to the GitHub tree or
\* blob handler with the same user, repo, ref and path; a legacy request for a
\* raw.github.com address is redirected to the blob form of its user, repo
\* and path.
C14_LegacyRedirectsToCanonical ==
    \A c \in DOMAIN req :
        Done(c) =>
            /\ Handler(c) = "GitHubRedirectHandler" =>
                  /\ req[c].kind = "redirect"
                  /\ Route(req[c].location.path).h \in {"GitHubTreeHandler", "GitHubBlobHandler"}
                  /\ Route(req[c].location.path).args = Args(c)
            /\ Handler(c) = "RawGitHubURLHandler" =>
                  /\ req[c].kind = "redirect"
                  /\ req[c].location =
                        Plain(<<"github">> \o Args(c)[1] \o Args(c)[2] \o <<"blob">> \o Args(c)[3])

\* as far as the code goes: the raw.github.com half of C14
C14_RawRedirectsToBlobForm ==
    \A c \in DOMAIN req :
        (Done(c) /\ Handler(c) = "RawGitHubURLHandler") =>
            /\ req[c].kind = "redirect"
            /\ req[c].location =
                  Plain(<<"github">> \o Args(c)[1] \o Args(c)[2] \o <<"blob">> \o Args(c)[3])
            /\ Route(req[c].location.path).h \in {"GitHubBlobHandler", "RemoveSlashHandler"}

\* C15 (as claimed): the redirect decision of a request is taken before its
\* cache lookup: a request that ends in a redirect has performed no cache
\* lookup, and a request that has performed a cache lookup ends as a cache hit
\* or, after a miss, with a fetched response, never in a redirect.
C15_RedirectBeforeLookup ==
    \A c \in DOMAIN req :
        Done(c) =>
            /\ req[c].kind = "redirect" => req[c].looked = "no"
            /\ req[c].looked = "hit" => (req[c].kind = "hit" /\ req[c].calls = 0)
            /\ req[c].looked = "miss" => (req[c].kind # "redirect" /\ req[c].calls = 1)

\* as far as the code goes: the redirects of the handlers that are not cached
\* take place without a cache lookup, and a request served from the cache is
\* never a redirect
C15_PlainRedirectsSkipLookup ==
    \A c \in DOMAIN req :
        Done(c) =>
            /\ Handler(c) \notin CachedHandlers => req[c].looked = "no"
            /\ Handler(c) \in CachedHandlers => req[c].looked # "no"
            /\ req[c].looked = "hit" => (req[c].kind = "hit" /\ req[c].calls = 0)
            /\ (req[c].kind = "redirect" /\ req[c].looked # "no") =>
                  /\ req[c].looked = "miss"
                  /\ Handler(c) \in {"GitHubTreeHandler", "GitHubBlobHandler"}
                  /\ req[c].subs = 0
                  /\ req[c].writes = 0

\* C16: within one request the provider call has been answered before the
\* conversion is submitted, and the conversion has returned before the cache
\* write is issued: no request has a submission or an issued cache write
\* without an answered provider call, and no request that answers a notebook
\* page has an issued cache write without a conversion that has returned.
Fetched(c) == req[c].calls = 1 /\ req[c].pc # "fetch"
Converted(c) == req[c].subs = 1 /\ req[c].pc \notin {"queued", "running"}
Issued(c) == req[c].pc = "store" \/ req[c].writes > 0

C16_FetchRenderStoreOrder ==
    \A c \in DOMAIN req :
        /\ req[c].subs > 0 => Fetched(c)
        /\ req[c].pc \in {"queued", "running"} => (req[c].subs = 1 /\ ~Issued(c))
        /\ Issued(c) => Fetched(c)
        /\ (Issued(c) /\ req[c].subs > 0) => Converted(c)
        /\ (Issued(c) /\ req[c].kind = "notebook") => (Converted(c) /\ IsNotebook(req[c].nbjson))

\* a notebook request has fetched, converted and written, in this order
C16_Witness ==
    \E c \in DOMAIN req :
        /\ Done(c)
        /\ req[c].kind = "notebook"
        /\ Fetched(c)
        /\ Converted(c)
        /\ req[c].writes = 1
        /\ req[c].uri \in DOMAIN cache

\* C17: with a pool of PoolSize workers whose running conversions return,
\* every submitted conversion is executed and its request resumes: a
\* submission waits in the queue exactly once until a worker takes it (it is
\* never rejected or dropped), at most PoolSize conversions run at once, a
\* queued conversion is eventually run and a running one eventually returns
\* to its request.
RECURSIVE Count(_, _)
Count(q, c) ==
    IF q = <<>> THEN 0 ELSE (IF Head(q) = c THEN 1 ELSE 0) + Count(Tail(q), c)

PoolHoldsEverySubmission ==
    /\ Cardinality(running) <= PoolSize
    /\ \A c \in DOMAIN req :
        /\ Count(queue, c) = (IF req[c].pc = "queued" THEN 1 ELSE 0)
        /\ c \in running <=> req[c].pc = "running"
        /\ ~(c \in running /\ Count(queue, c) > 0)

C17_PoolRunsEverySubmission ==
    /\ []PoolHoldsEverySubmission
    /\ \A c \in Clients : (req[c].pc = "queued") ~> (req[c].pc = "running")
    /\ \A c \in Clients : (req[c].pc = "running") ~> (req[c].pc \in {"store", "done"})

\* a conversion is submitted while every worker is busy, and waits
C17_Witness ==
    /\ Cardinality(running) = PoolSize
    /\ queue # <<>>
    /\ \E c \in DOMAIN req : req[c].pc = "queued" /\ req[c].subs = 1

\* C18: while the conversion of one request is queued or running, whether or
\* not it ever returns, the next step of every other request in flight is
\* ready to be taken (its cache lookup, the answer of its provider call, its
\* cache write), and each step such a request takes brings it nearer to its
\* answer and leaves the conversion where it is.
InPool(c) == req[c].pc \in {"queued", "running"}

OthersReady ==
    \A c \in DOMAIN req : \A d \in DOMAIN req \ {c} :
        InPool(c) =>
            /\ req[d].pc = "lookup" => ENABLED Lookup(d)
            /\ req[d].pc = "fetch" => ENABLED FetchDone(d)
            /\ req[d].pc = "store" => ENABLED CacheSet(d)

\* the suspension points of a request, in the order a request passes them
Rank(pc) ==
    IF pc = "lookup" THEN 1 ELSE IF pc = "fetch" THEN 2 ELSE IF pc = "queued" THEN 3
    ELSE IF pc = "running" THEN 4 ELSE IF pc = "store" THEN 5 ELSE 6

OthersAdvance ==
    \A c \in DOMAIN req : \A d \in DOMAIN req \ {c} :
        (/\ InPool(c)
         /\ req[d].pc \in {"lookup", "fetch", "store"}
         /\ [req[d] EXCEPT !.closed = FALSE] # [req'[d] EXCEPT !.closed = FALSE])
        => /\ Rank(req'[d].pc) > Rank(req[d].pc)
           /\ req'[c] = req[c]
           /\ running' = running
           /\ Count(queue', c) = Count(queue, c)

C18_LoopNotBlocked == []OthersReady /\ [][OthersAdvance]_vars

\* with a request loop that resumes every handler that is ready, every request
\* in flight goes on until it is answered or has submitted a conversion of its
\* own, whatever becomes of the conversions in the pool
C18_OthersGoOn ==
    \A d \in Clients :
        (req[d].pc \in {"lookup", "fetch", "store"}) ~> (req[d].pc \in {"done", "queued"})

\* each client has sent one request; the conversion of the first, fetched
\* before the upstream change, is still running, and the second has been
\* answered with a listing fetched after that change
C18_Witness ==
    \E c \in DOMAIN req : \E d \in DOMAIN req \ {c} :
        /\ starts = 0
        /\ req[c].pc = "running"
        /\ req[c].nbjson.ver = MaxVer - 1
        /\ Done(d)
        /\ req[d].kind = "listing"
        /\ req[d].body.bytes.ver = MaxVer
        /\ req[d].writes = 1

\* C19: when the connection of a request closes after its cache miss and
\* before it is answered, the request goes on as if it were open: its next
\* step stays ready, a closed request whose document has been converted, or
\* whose listing has been rendered, has issued its cache write, and the write
\* of a closed request stores its bytes under its URI.
Rendered(c) ==
    \/ req[c].subs = 1 /\ IsNotebook(req[c].nbjson) /\ req[c].pc \in {"store", "done"}
    \/ req[c].kind = "listing"

ClosedGoesOn ==
    \A c \in DOMAIN req :
        req[c].closed =>
            /\ req[c].looked = "miss"
            /\ req[c].pc = "fetch" => ENABLED FetchDone(c)
            /\ req[c].pc = "queued" => Count(queue, c) = 1
            /\ req[c].pc = "running" => ENABLED RenderDone(c)
            /\ req[c].pc = "store" => ENABLED CacheSet(c)
            /\ Rendered(c) =>
                  /\ req[c].kind \in {"notebook", "listing"}
                  /\ req[c].bcontent = req[c].body
                  /\ Issued(c)
            /\ (Rendered(c) /\ Done(c)) => (req[c].status = 200 /\ req[c].writes = 1)

ClosedWrites ==
    \A c \in DOMAIN req :
        (req[c].closed /\ req[c].pc = "store" /\ req'[c].pc # "store") =>
            /\ req'[c].pc = "done"
            /\ req'[c].closed
            /\ req[c].uri \in DOMAIN cache'
            /\ cache'[req[c].uri] = [value |-> req[c].bcontent, expiry |-> req[c].expire]

C19_ClosedRequestStillCaches == []ClosedGoesOn /\ [][ClosedWrites]_vars

\* with the request loop and the pool running, a request whose connection has
\* closed is carried through to its end
C19_ClosedRunsToCompletion ==
    \A c \in Clients :
        (req[c].closed /\ req[c].pc \in {"fetch", "queued", "running", "store"})
            ~> (req[c].closed /\ Done(c))

\* the connection of a request closed before the request was answered, and
\* its page is in the cache
C19_Witness ==
    \E c \in DOMAIN req :
        /\ req[c].closed
        /\ Done(c)
        /\ req[c].kind = "notebook"
        /\ req[c].writes = 1
        /\ req[c].uri \in DOMAIN cache
        /\ cache[req[c].uri].value = req[c].bcontent

\* C20: the cache is changed by the steps of requests only when a request
\* that missed the cache and has a content response carries out its one cache
\* write, which sets the entry of its own URI and leaves every other entry as
\* it is; a step that ends a request as a cache hit, a redirect or an error
\* leaves the cache as it is, so a hit does not extend the expiry of the entry
\* it served.  (The store itself drops an entry at its expiry, when time
\* passes.)
Expired(old, new) ==
    /\ DOMAIN new \subseteq DOMAIN old
    /\ \A k \in DOMAIN new : new[k] = old[k]
    /\ \A k \in DOMAIN old \ DOMAIN new : old[k].expiry <= now'

WrittenBy(c) ==
    /\ req[c].pc = "store"
    /\ req[c].looked = "miss"
    /\ req[c].writes = 0
    /\ req'[c].pc = "done"
    /\ req'[c].writes = 1
    /\ req'[c].status = 200
    /\ req'[c].kind \in {"notebook", "listing"}
    /\ DOMAIN cache' = DOMAIN cache \cup {req[c].uri}
    /\ cache'[req[c].uri] = [value |-> req[c].bcontent, expiry |-> req[c].expire]
    /\ \A k \in DOMAIN cache \ {req[c].uri} : cache'[k] = cache[k]
    /\ \A d \in DOMAIN req \ {c} : req'[d] = req[d]

CacheFrame ==
    /\ cache' # cache =>
          \/ now' # now /\ Expired(cache, cache')
          \/ \E c \in DOMAIN req : WrittenBy(c)
    /\ \A c \in DOMAIN req :
          /\ (req'[c] # req[c] /\ req'[c].pc = "done"
                /\ req'[c].kind \in {"hit", "redirect", "error", "page"}) => cache' = cache
          /\ req'[c].writes <= 1
          /\ (req'[c].writes > 0 /\ req'[c].uri = req[c].uri) => req[c].pc \in {"store", "done"}

C20_CacheFrame == [][CacheFrame]_vars

\* a request has been served from the cache after the entry was written, and
\* the entry still has the expiry it was written with
C20_Witness ==
    \E c \in DOMAIN req : \E o \in seen :
        /\ Done(c)
        /\ req[c].kind = "hit"
        /\ o.key = req[c].uri
        /\ o.at > 0
        /\ req[c].uri \in DOMAIN cache
        /\ cache[req[c].uri].expiry = o.expiry
        /\ o.expiry < o.at + cache_expiry

====
